---- MODULE Spec2Model ----
(***************************************************************************)
(* Live-game delta tracking of natstat_manager: the in-memory storage      *)
(* (app/background/live_games/storage.py), the change convertor            *)
(* (converter.py), the polling cycle of the update manager (manager.py)    *)
(* and the runtimes that share the storage (runtimes.py, main.py), with    *)
(* the provider client (app/common/clients.py), gather_throttle            *)
(* (app/common/utils.py) and the future-games refresh and its games table  *)
(* (runtimes.py, app/db/db_client.py).                                     *)
(*                                                                         *)
(* Python's None is modelled by the empty set and a present value x by the *)
(* singleton {x}, so "x | None" fields are sets of at most one element.    *)
(* Datetimes are naive minute counts; day d starts at minute d * 1440.     *)
(***************************************************************************)
EXTENDS Integers, Sequences, FiniteSets, TLC

VARIABLES
    storage,   \* InmemoryStorage._storage: key -> GameLastInfo (a dict)
    now,       \* the UTC wall clock, in minutes
    tz,        \* offset of the host's local time from UTC, in minutes
    cycle,     \* the polling cycle in progress (GameUpdateManager.game_details_update)
    loops,     \* the four polling tasks of GameDetailsUpdateRuntime.async_run
    gc,        \* the sweep thread inside clean_old_records: its new_storage
    other,     \* the cycle of another polling task, suspended at an await
    future,    \* FutureGamesUpdateRuntime and the games table it maintains
    last       \* observation of the last operation: its name and what it acted on

vars == <<storage, now, tz, cycle, loops, gc, other, future, last>>

None == {}
Some(x) == {x}
Val(o) == CHOOSE x \in o : TRUE

Hours(n) == n * 60
MinutesPerDay == Hours(24)

\* timedelta(hours=3) of get_games_by_type, timedelta(hours=5) of clean_old_records
LiveWindowHours == 3
RetentionHours == 5
\* America/New_York standard time is UTC-5
NyUtcOffsetHours == 5
\* gather_throttle(10, *tasks) of game_details_update and of the future-games refresh
ThrottleLimit == 10
\* NatstatClient(max_retries=2)
MaxRetries == 2
\* timedelta(days=10) of mark_removed_games
RemovalWindowDays == 10

-----------------------------------------------------------------------------
(* Bounds and input domains *)

MaxEventId == 2      \* play-by-play ids are 1..MaxEventId
MaxPbpLen == 2       \* records in one payload's play-by-play collection
MaxFillLen == 2      \* games in one fill_inmemory_storage call

SportCode == "NBA"
GameIds == {1, 2}
GameTypes == {"today", "early", "live", "early_final"}

\* The scheduled start of the modelled games: 20:00 UTC of day 0
GameStart == Hours(20)

GameShort(id) == [game_id |-> id, sport_code |-> SportCode]
GameShorts == {GameShort(id) : id \in GameIds}

\* GameShort.key
Key(game_short) == game_short.sport_code \o "_" \o ToString(game_short.game_id)

\* datetime.datetime.now(): the host's local time
LocalNow == now + tz

\* dict helpers
Put(d, k, v) == [x \in (DOMAIN d) \cup {k} |-> IF x = k THEN v ELSE d[x]]
Restrict(d, ks) == [x \in ks |-> d[x]]
EmptyDict == [x \in {} |-> None]

-----------------------------------------------------------------------------
(* app/common/utils.py *)

\* is_game_final: "final" in game_status.lower()
LowerCase(status) ==
    CASE status = "Final" -> "final"
      [] status = "Final - Forfeit Home" -> "final - forfeit home"
      [] status = "FINAL" -> "final"
      [] status = "Scheduled" -> "scheduled"
      [] status = "InProgress" -> "inprogress"
      [] status = "Postponed" -> "postponed"
      [] OTHER -> status

ContainsFinal(lowered) == lowered \in {"final", "final - forfeit home"}

\* a test for "final" that does not lower the status first
is_game_final_case_sensitive(game_status) ==
    game_status \in {"final", "final - forfeit home"}

is_game_final(game_status) == ContainsFinal(LowerCase(game_status))

-----------------------------------------------------------------------------
(* InmemoryStorage *)

\* GameLastInfo(...) as fill_inmemory_storage builds it from a database Game
LastInfoOfGame(game) ==
    [game_short |-> [game_id |-> game.id, sport_code |-> game.sport_code],
     gamedatetime |-> game.gamedatetime,
     status |-> game.status,
     score_visitor |-> game.score_visitor,
     score_home |-> game.score_home,
     score_overtime |-> game.score_overtime,
     playbyplay_ids |-> None]

\* a fill that overwrites the entries it finds
RECURSIVE FillOverFrom(_, _, _)
FillOverFrom(st, games, i) ==
    IF i > Len(games) THEN st
    ELSE LET info == [game_short |-> [game_id |-> games[i].id,
                                      sport_code |-> games[i].sport_code],
                      gamedatetime |-> games[i].gamedatetime,
                      status |-> games[i].status,
                      score_visitor |-> games[i].score_visitor,
                      score_home |-> games[i].score_home,
                      score_overtime |-> games[i].score_overtime,
                      playbyplay_ids |-> None]
             k == info.game_short.sport_code \o "_" \o ToString(info.game_short.game_id)
         IN FillOverFrom([x \in (DOMAIN st) \cup {k} |-> IF x = k THEN info ELSE st[x]],
                         games, i + 1)
fill_overwriting(st, games) == FillOverFrom(st, games, 1)

\* the loop of fill_inmemory_storage over games[i..]
RECURSIVE FillFrom(_, _, _)
FillFrom(st, games, i) ==
    IF i > Len(games) THEN st
    ELSE LET info == LastInfoOfGame(games[i])
             k == Key(info.game_short)
         IN FillFrom(IF k \notin DOMAIN st THEN Put(st, k, info) ELSE st, games, i + 1)

fill_inmemory_storage(st, games) == FillFrom(st, games, 1)

\* clean_old_records: the entries kept
clean_old_records(st, local_now) ==
    LET threshold_time == local_now - Hours(RetentionHours)
    IN Restrict(st, {k \in DOMAIN st : st[k].gamedatetime >= threshold_time})

\* a live bucket that forgets the status test of games already started
InBucketLiveAnyStatus(info, game_type, current_time) ==
    LET gamedatetime == info.gamedatetime
    IN IF game_type = "early_final" /\ is_game_final(info.status) THEN TRUE
       ELSE IF game_type = "live"
               /\ current_time - Hours(LiveWindowHours) <= gamedatetime
               /\ gamedatetime < current_time + Hours(LiveWindowHours) THEN TRUE
       ELSE IF game_type = "today"
               /\ (current_time \div MinutesPerDay) * MinutesPerDay <= gamedatetime
               /\ gamedatetime <= (current_time \div MinutesPerDay) * MinutesPerDay
                                     + MinutesPerDay - 1 THEN TRUE
       ELSE FALSE

\* an early bucket of the games starting within the next hours
InBucketEarlyWindow(info, game_type, current_time) ==
    LET gamedatetime == info.gamedatetime
    IN IF game_type = "early_final" /\ is_game_final(info.status) THEN TRUE
       ELSE IF game_type = "live"
               /\ (\/ (current_time <= gamedatetime
                       /\ gamedatetime < current_time + Hours(LiveWindowHours))
                   \/ (/\ info.status # "Scheduled"
                       /\ current_time - Hours(LiveWindowHours) <= gamedatetime
                       /\ gamedatetime < current_time)) THEN TRUE
       ELSE IF game_type = "early"
               /\ current_time < gamedatetime
               /\ gamedatetime <= current_time + Hours(LiveWindowHours) THEN TRUE
       ELSE IF game_type = "today"
               /\ (current_time \div MinutesPerDay) * MinutesPerDay <= gamedatetime
               /\ gamedatetime <= (current_time \div MinutesPerDay) * MinutesPerDay
                                     + MinutesPerDay - 1 THEN TRUE
       ELSE FALSE

\* the condition of get_games_by_type for one entry
InBucket(info, game_type, current_time) ==
    LET three_hours_ago == current_time - Hours(LiveWindowHours)
        five_hours_future == current_time + Hours(LiveWindowHours)
        today_start == (current_time \div MinutesPerDay) * MinutesPerDay
        today_end == today_start + MinutesPerDay - 1
        gamedatetime == info.gamedatetime
    IN IF game_type = "early_final" /\ is_game_final(info.status) THEN TRUE
       ELSE IF game_type = "live"
               /\ (\/ (current_time <= gamedatetime /\ gamedatetime < five_hours_future)
                   \/ (/\ info.status # "Scheduled"
                       /\ three_hours_ago <= gamedatetime
                       /\ gamedatetime < current_time)) THEN TRUE
       ELSE IF game_type = "early"
               /\ current_time < gamedatetime /\ gamedatetime <= current_time THEN TRUE
       ELSE IF game_type = "today"
               /\ today_start <= gamedatetime /\ gamedatetime <= today_end THEN TRUE
       ELSE FALSE

\* get_games_by_type: the GameShorts returned (their order is the dict's)
get_games_by_type(st, game_type, current_time) ==
    {st[k].game_short : k \in {x \in DOMAIN st : InBucket(st[x], game_type, current_time)}}

\* get_last_info: dict.get
get_last_info(st, k) == IF k \in DOMAIN st THEN Some(st[k]) ELSE None

\* a status read that answers None for a key without an entry
get_game_current_status_or_none(st, k) ==
    IF k \in DOMAIN st THEN [error |-> "none", status |-> Some(st[k].status)]
    ELSE [error |-> "none", status |-> None]

\* get_game_current_status: self._storage[key].status, KeyError without the key
get_game_current_status(st, k) ==
    IF k \in DOMAIN st THEN [error |-> "none", status |-> Some(st[k].status)]
    ELSE [error |-> "KeyError", status |-> None]

-----------------------------------------------------------------------------
(* Provider payloads.  A raw JSON value is a string token: "null" is a key   *)
(* that is missing (jmespath.search returns None), "{}" is the provider's    *)
(* dict placeholder, anything else is the text of the value.                 *)

MaxInt == 9          \* int() literals understood by the model are "0".."9"

IsDict(tok) == tok = "{}"
IsMissing(tok) == tok = "null"

\* int(value): defined on decimal literals, ValueError otherwise
IsIntLiteral(tok) == \E n \in 0..MaxInt : ToString(n) = tok
ParseInt(tok) == CHOOSE n \in 0..MaxInt : ToString(n) = tok

\* get_game_datetime: strptime of gameday (a day "-00" read as "-01") and
\* starttime (midnight when it is a dict), localized to New York, as naive UTC
get_game_datetime(game_data) ==
    LET day_of_month == IF game_data.gameday.dom = 0 THEN 1 ELSE game_data.gameday.dom
        day == game_data.gameday.month_start + day_of_month - 1
        local == IF game_data.starttime.is_dict
                 THEN day * MinutesPerDay
                 ELSE day * MinutesPerDay + game_data.starttime.minutes
    IN local + Hours(NyUtcOffsetHours)

\* get_natstat_value(data, path, int) raises ValueError
NatstatIntRaises(tok) == ~IsDict(tok) /\ ~IsMissing(tok) /\ ~IsIntLiteral(tok)

\* get_natstat_value(data, path, int)
get_natstat_int(tok) ==
    IF IsDict(tok) THEN None
    ELSE IF ~IsMissing(tok) THEN Some(ParseInt(tok))
    ELSE None

\* get_natstat_value(data, path, str)
get_natstat_str(tok) ==
    IF IsDict(tok) THEN None
    ELSE IF ~IsMissing(tok) THEN Some(tok)
    ELSE None

-----------------------------------------------------------------------------
(* GameChangeConvertor: last_info is None or Some(GameLastInfo) *)

get_changed_status(last_info, game_data) ==
    IF last_info = None \/ Val(last_info).status # game_data.status
    THEN Some(game_data.status)
    ELSE None

get_changed_gamedatetime(last_info, game_data) ==
    LET new_gamedt == get_game_datetime(game_data)
    IN IF last_info = None \/ new_gamedt # Val(last_info).gamedatetime
       THEN Some(new_gamedt)
       ELSE None

get_changed_score_visitor(last_info, game_data) ==
    LET score_visitor == get_natstat_int(game_data.score.visitor)
    IN IF last_info = None \/ Val(last_info).score_visitor # score_visitor
       THEN score_visitor
       ELSE None

\* a score_home reported whether or not it changed
get_score_home_always(last_info, game_data) ==
    IF IsDict(game_data.score.home) \/ IsMissing(game_data.score.home) THEN None
    ELSE Some(CHOOSE n \in 0..MaxInt : ToString(n) = game_data.score.home)

get_changed_score_home(last_info, game_data) ==
    LET score_home == get_natstat_int(game_data.score.home)
    IN IF last_info = None \/ Val(last_info).score_home # score_home
       THEN score_home
       ELSE None

get_changed_score_overtime(last_info, game_data) ==
    LET score_overtime == get_natstat_str(game_data.score.overtime)
    IN IF last_info = None \/ Val(last_info).score_overtime # score_overtime
       THEN score_overtime
       ELSE None

\* {int(item["id"]) for item in pbps}
PbpIds(pbps) == {ParseInt(pbps[i].id) : i \in DOMAIN pbps}

SelectPbps(pbps, ids) ==
    LET keep(item) == ParseInt(item.id) \in ids
    IN SelectSeq(pbps, keep)

\* play-by-play changes that report every record of the payload
get_play_by_play_all(last_info, game_data) ==
    IF game_data.playbyplay = None THEN None
    ELSE Some(Val(game_data.playbyplay))

get_play_by_play_changes(last_info, game_data) ==
    IF game_data.playbyplay = None THEN None
    ELSE LET pbps == Val(game_data.playbyplay)
             online_pbps_ids == PbpIds(pbps)
             new_pbps_ids ==
                 IF last_info = None \/ Val(last_info).playbyplay_ids = None
                 THEN online_pbps_ids
                 ELSE online_pbps_ids \ Val(Val(last_info).playbyplay_ids)
         IN Some(SelectPbps(pbps, new_pbps_ids))

\* get_game_changes raises: an int() of a score or of an event id fails
GameChangesRaises(game_data) ==
    \/ NatstatIntRaises(game_data.score.visitor)
    \/ NatstatIntRaises(game_data.score.home)
    \/ /\ game_data.playbyplay # None
       /\ \E i \in DOMAIN Val(game_data.playbyplay) :
              ~IsIntLiteral(Val(game_data.playbyplay)[i].id)

get_game_changes(game_short, game_data, last_info) ==
    [game_short |-> game_short,
     game_data |-> game_data,
     status |-> get_changed_status(last_info, game_data),
     gamedatetime |-> get_changed_gamedatetime(last_info, game_data),
     score_visitor |-> get_changed_score_visitor(last_info, game_data),
     score_home |-> get_changed_score_home(last_info, game_data),
     score_overtime |-> get_changed_score_overtime(last_info, game_data),
     playbyplay_changes |-> get_play_by_play_changes(last_info, game_data)]

-----------------------------------------------------------------------------
(* InmemoryStorage.update_games_list *)

\* the entry created when the store has none for the delta's key
NewLastInfo(game_changes) ==
    [game_short |-> game_changes.game_short,
     gamedatetime |-> get_game_datetime(game_changes.game_data),
     status |-> game_changes.game_data.status,
     score_visitor |-> None,
     score_home |-> None,
     score_overtime |-> None,
     playbyplay_ids |-> None]

\* setattr of the scores without the "is not None" test
SetGenericKeysUnchecked(info, game_changes) ==
    [info EXCEPT
        !.status = IF game_changes.status # None
                   THEN Val(game_changes.status) ELSE @,
        !.gamedatetime = IF game_changes.gamedatetime # None
                         THEN Val(game_changes.gamedatetime) ELSE @,
        !.score_visitor = game_changes.score_visitor,
        !.score_home = game_changes.score_home,
        !.score_overtime = game_changes.score_overtime]

\* for key in generic_keys: setattr when the value is not None
SetGenericKeys(info, game_changes) ==
    [info EXCEPT
        !.status = IF game_changes.status # None
                   THEN Val(game_changes.status) ELSE @,
        !.gamedatetime = IF game_changes.gamedatetime # None
                         THEN Val(game_changes.gamedatetime) ELSE @,
        !.score_visitor = IF game_changes.score_visitor # None
                          THEN game_changes.score_visitor ELSE @,
        !.score_home = IF game_changes.score_home # None
                       THEN game_changes.score_home ELSE @,
        !.score_overtime = IF game_changes.score_overtime # None
                           THEN game_changes.score_overtime ELSE @]

\* playbyplay_ids assigned the new ids instead of updated with them
MergePlayByPlayIdsAssign(info, game_changes) ==
    IF game_changes.playbyplay_changes # None
       /\ Len(Val(game_changes.playbyplay_changes)) > 0
    THEN [info EXCEPT !.playbyplay_ids =
             Some({CHOOSE n \in 0..MaxInt :
                      ToString(n) = Val(game_changes.playbyplay_changes)[i].id :
                   i \in DOMAIN Val(game_changes.playbyplay_changes)})]
    ELSE info

\* if game_changes.playbyplay_changes: (None and [] are both falsy)
MergePlayByPlayIds(info, game_changes) ==
    IF game_changes.playbyplay_changes # None
       /\ Len(Val(game_changes.playbyplay_changes)) > 0
    THEN LET playbyplay_ids == PbpIds(Val(game_changes.playbyplay_changes))
         IN IF info.playbyplay_ids = None
            THEN [info EXCEPT !.playbyplay_ids = Some(playbyplay_ids)]
            ELSE [info EXCEPT !.playbyplay_ids = Some(Val(@) \cup playbyplay_ids)]
    ELSE info

\* an iteration that only seeds a new entry from the payload and applies
\* the delta to entries that were there
UpdateOneSeedOnly(st, game_changes) ==
    LET k == game_changes.game_short.sport_code \o "_" \o
                ToString(game_changes.game_short.game_id)
    IN IF k \in DOMAIN st
       THEN [x \in DOMAIN st |->
               IF x = k
               THEN MergePlayByPlayIds(SetGenericKeys(st[k], game_changes), game_changes)
               ELSE st[x]]
       ELSE [x \in (DOMAIN st) \cup {k} |->
               IF x = k
               THEN [game_short |-> game_changes.game_short,
                     gamedatetime |-> get_game_datetime(game_changes.game_data),
                     status |-> game_changes.game_data.status,
                     score_visitor |-> None, score_home |-> None,
                     score_overtime |-> None, playbyplay_ids |-> None]
               ELSE st[x]]

\* one iteration of the loop of update_games_list
UpdateOne(st, game_changes) ==
    LET k == Key(game_changes.game_short)
        found == get_last_info(st, k)
        last_info == IF found = None THEN NewLastInfo(game_changes) ELSE Val(found)
    IN Put(st, k, MergePlayByPlayIds(SetGenericKeys(last_info, game_changes), game_changes))

RECURSIVE UpdateFrom(_, _, _)
UpdateFrom(st, games_changes, i) ==
    IF i > Len(games_changes) THEN st
    ELSE UpdateFrom(UpdateOne(st, games_changes[i]), games_changes, i + 1)

update_games_list(st, games_changes) == UpdateFrom(st, games_changes, 1)

-----------------------------------------------------------------------------
(* GameUpdateManager *)

\* response_to_game_data raises: list(raw_response["games"].values())[0] of no game
ResponseRaises(raw_response) ==
    /\ raw_response # None
    /\ Val(raw_response).success # "0"
    /\ Val(raw_response).games # None
    /\ Len(Val(Val(raw_response).games)) = 0

\* response_to_game_data: None for a bad response, else the single game
response_to_game_data(raw_response) ==
    IF \/ raw_response = None
       \/ Val(raw_response).success = "0"
       \/ Val(raw_response).games = None
       \/ Len(Val(Val(raw_response).games)) > 1
    THEN None
    ELSE Some(Val(Val(raw_response).games)[1])

\* the order in which a cycle lists the games of its bucket
RECURSIVE SeqOfSet(_)
SeqOfSet(S) ==
    IF S = {} THEN <<>>
    ELSE LET x == CHOOSE y \in S : TRUE IN <<x>> \o SeqOfSet(S \ {x})

\* changes = [change for change in changes if change is not None]
RECURSIVE NotNoneChanges(_, _)
NotNoneChanges(games_short, changes) ==
    IF games_short = <<>> THEN <<>>
    ELSE LET change == changes[Key(Head(games_short))]
             rest == NotNoneChanges(Tail(games_short), changes)
         IN IF change # None THEN <<Val(change)>> \o rest ELSE rest

\* a call of a DbClient method, with the keys of the games it is given
DbCall(fn, keys) == [fn |-> fn, keys |-> keys]

RECURSIVE KeysOf(_)
KeysOf(changes) ==
    IF changes = <<>> THEN <<>>
    ELSE <<Key(Head(changes).game_short)>> \o KeysOf(Tail(changes))

\* save_final_games: upsert_games for each change, then save_game_details and
\* save_pbps of all of them if there is any
RECURSIVE UpsertEach(_)
UpsertEach(changes) ==
    IF changes = <<>> THEN <<>>
    ELSE <<DbCall("upsert_games", <<Key(Head(changes).game_short)>>)>>
         \o UpsertEach(Tail(changes))

save_final_games(changes) ==
    UpsertEach(changes) \o
    (IF changes # <<>>
     THEN <<DbCall("save_game_details", KeysOf(changes)),
            DbCall("save_pbps", KeysOf(changes))>>
     ELSE <<>>)

\* a persist step that takes the incremental upsert for every bucket
PersistCallsLiveOnly(game_type, changes) ==
    <<[fn |-> "upsert_live_games", keys |-> KeysOf(changes)]>>

\* a persist step that hands its deltas over in the final path only
PersistCallsFinalOnly(game_type, changes) ==
    IF game_type = "early_final" THEN save_final_games(changes) ELSE <<>>

\* the last statement of game_details_update: the DbClient calls it makes
PersistCalls(game_type, changes) ==
    IF game_type = "early_final" THEN save_final_games(changes)
    ELSE <<DbCall("upsert_live_games", KeysOf(changes))>>

\* which branch of response_to_game_data a response takes
ResponseKind(raw_response) ==
    IF raw_response = None THEN "none"
    ELSE IF Val(raw_response).success = "0" THEN "unsuccessful"
    ELSE IF Val(raw_response).games = None THEN "no_games_key"
    ELSE IF Len(Val(Val(raw_response).games)) > 1 THEN "many_games"
    ELSE IF Len(Val(Val(raw_response).games)) = 0 THEN "no_game"
    ELSE "one_game"

\* GameDetailsUpdateRuntime.async_run: the four tasks are awaited by one
\* asyncio.gather without return_exceptions under asyncio.run, so the exception
\* of one task ends async_run and asyncio.run cancels the tasks still pending
Running == [t \in GameTypes |-> "running"]
AfterRaise(game_type) ==
    [t \in GameTypes |-> IF t = game_type THEN "raised" ELSE "cancelled"]

\* gather_throttle: asyncio.Semaphore(limit) is taken by the tasks in the order
\* asyncio.gather starts them, and each task that finishes releases it to the
\* first waiter, so the tasks ever admitted are the first limit + (finished)
MinOf(a, b) == IF a < b THEN a ELSE b
Admitted(tasks, done, limit) ==
    {tasks[i] : i \in 1..MinOf(Len(tasks), limit + Cardinality(done))}

\* a gather that lists the results as the tasks finish
gather_as_completed(results, order) == [i \in 1..Len(order) |-> results[order[i]]]

\* what asyncio.gather returns: the result of each awaitable, in the order of
\* the awaitables; order is the order in which the tasks finished
gather_results(results, order) == [i \in 1..Len(order) |-> results[i]]

\* the tasks inside "async with semaphore": admitted and not finished
gather_throttle(tasks, done, limit) == Admitted(tasks, done, limit) \ done

\* the sweep thread outside clean_old_records
Idle == [pc |-> "idle", kept |-> {}]

Sleeping == [pc |-> "sleep", game_type |-> "today", games_short |-> {}, changes |-> EmptyDict]

\* FutureGamesUpdateRuntime between two runs of its job, and the games table
FutureIdle ==
    [pc |-> "idle", reference_dt |-> 0, sports |-> <<>>, results |-> <<>>,
     order |-> <<>>, games |-> {}]

-----------------------------------------------------------------------------
(* NatstatClient (app/common/clients.py) *)

\* what one session.get of _get comes to: asyncio.TimeoutError, or a response
\* with its status and what response.json() makes of its body
Timeout == [kind |-> "timeout", status |-> 0, is_json |-> FALSE, json |-> None]
NotJson(status) == [kind |-> "response", status |-> status, is_json |-> FALSE, json |-> None]
Json(status, raw_response) ==
    [kind |-> "response", status |-> status, is_json |-> TRUE, json |-> raw_response]

\* how a call of _get ends: it returns value, or raises error
Returns(value) == [raises |-> FALSE, error |-> "", value |-> value]
Raises(error) == [raises |-> TRUE, error |-> error, value |-> None]

\* the for loop of _get from attempt number attempts (0-based) on
RECURSIVE GetFrom(_, _, _)
GetFrom(outcomes, attempts, max_retries) ==
    IF attempts >= max_retries THEN Returns(None)
    ELSE LET response == outcomes[attempts + 1]
         IN IF response.kind = "timeout"
            THEN IF attempts < max_retries - 1
                 THEN GetFrom(outcomes, attempts + 1, max_retries)
                 ELSE Raises("TimeoutError")
            ELSE IF response.status = 500 THEN Returns(None)
            ELSE IF response.is_json THEN Returns(response.json)
            ELSE Raises("ContentTypeError")

\* NatstatClient._get, given what each attempt comes to
_get(outcomes, max_retries) == GetFrom(outcomes, 0, max_retries)

\* NatstatClient.fetch_game of the client the runtimes construct
fetch_game(outcomes) == _get(outcomes, MaxRetries)

-----------------------------------------------------------------------------
(* FutureGamesUpdateRuntime and the DbClient methods it calls *)

\* get_basketball_sports: the codes of the basketball Sport rows
Sports == <<"NBA", "WNBA">>

FetchedGamesResult(is_successful, games_data) ==
    [is_successful |-> is_successful, games_data |-> games_data]

\* parse_games_response raises KeyError: raw_response["games"] of a
\* successful response without "games"
ParseGamesRaises(raw_response) ==
    /\ raw_response # None
    /\ Val(raw_response).success # "0"
    /\ Val(raw_response).games = None

parse_games_response(raw_response) ==
    IF raw_response = None \/ Val(raw_response).success = "0"
    THEN FetchedGamesResult(FALSE, <<>>)
    ELSE FetchedGamesResult(TRUE, Val(Val(raw_response).games))

\* a row of the games table
GameRow(id, sport_code, gamedatetime, removed_from_natstat) ==
    [id |-> id, sport_code |-> sport_code, gamedatetime |-> gamedatetime,
     removed_from_natstat |-> removed_from_natstat]

\* a query for the rows of a sport from start_date on, without an end
get_games_from_start_date(games, sport_code, start_date, end_date) ==
    {g \in games : g.sport_code = sport_code /\ g.gamedatetime >= start_date}

get_games_in_date_range(games, sport_code, start_date, end_date) ==
    {g \in games : /\ g.sport_code = sport_code
                   /\ g.gamedatetime >= start_date
                   /\ g.gamedatetime <= end_date}

mark_games_as_removed(games, sport_code, game_ids) ==
    {IF g.sport_code = sport_code /\ g.id \in game_ids
     THEN [g EXCEPT !.removed_from_natstat = TRUE] ELSE g : g \in games}

\* {int(game["id"]) for game in fetched_games}
FetchedGameIds(fetched_games) ==
    {ParseInt(fetched_games[i].id) : i \in DOMAIN fetched_games}

\* mark_removed_games: game_ids_to_remove
GameIdsToRemove(games, sport_code, fetched_games, reference_dt) ==
    {g.id : g \in get_games_in_date_range(games, sport_code, reference_dt,
                       reference_dt + RemovalWindowDays * MinutesPerDay)}
    \ FetchedGameIds(fetched_games)

mark_removed_games(games, sport_code, fetched_games, reference_dt) ==
    LET game_ids_to_remove == GameIdsToRemove(games, sport_code, fetched_games, reference_dt)
    IN IF game_ids_to_remove # {}
       THEN mark_games_as_removed(games, sport_code, game_ids_to_remove)
       ELSE games

\* upsert_games: the row of each game is updated or added, with its start
\* computed as get_game_datetime does and removed_from_natstat = False
RECURSIVE upsert_games(_, _, _)
upsert_games(games, sport_code, fetched_games) ==
    IF fetched_games = <<>> THEN games
    ELSE LET game_data == Head(fetched_games)
             game_id == ParseInt(game_data.id)
             game == GameRow(game_id, sport_code, get_game_datetime(game_data), FALSE)
         IN upsert_games({g \in games : ~(g.id = game_id /\ g.sport_code = sport_code)}
                           \cup {game},
                         sport_code, Tail(fetched_games))

\* the body of the loop of upsert_future_games for one sport and its result
UpsertSport(games, sport_code, fetched_games_result, reference_dt) ==
    IF ~fetched_games_result.is_successful THEN games
    ELSE upsert_games(mark_removed_games(games, sport_code,
                                         fetched_games_result.games_data, reference_dt),
                      sport_code, fetched_games_result.games_data)

\* upsert_future_games: for sport, result in zip(sports, fetched_games_results)
RECURSIVE UpsertFutureFrom(_, _, _, _, _)
UpsertFutureFrom(games, sports, fetched_games_results, i, reference_dt) ==
    IF i > MinOf(Len(sports), Len(fetched_games_results)) THEN games
    ELSE UpsertFutureFrom(UpsertSport(games, sports[i], fetched_games_results[i], reference_dt),
                          sports, fetched_games_results, i + 1, reference_dt)

upsert_future_games(games, sports, fetched_games_results, reference_dt) ==
    UpsertFutureFrom(games, sports, fetched_games_results, 1, reference_dt)

-----------------------------------------------------------------------------
(* Operations *)

\* FillInmemoryRuntime: storage.fill_inmemory_storage(games)
Fill(games) ==
    /\ storage' = fill_inmemory_storage(storage, games)
    /\ last' = [op |-> "fill",
                \* keys named by the call whose entry was there and differs from the row
                kept |-> {Key(LastInfoOfGame(games[i]).game_short) : i \in
                            {j \in DOMAIN games :
                               LET info == LastInfoOfGame(games[j])
                               IN /\ Key(info.game_short) \in DOMAIN storage
                                  /\ storage[Key(info.game_short)] # info}},
                \* keys named by the call that had no entry
                added |-> {Key(LastInfoOfGame(games[i]).game_short) : i \in
                            {j \in DOMAIN games :
                               Key(LastInfoOfGame(games[j]).game_short) \notin DOMAIN storage}}]
    /\ UNCHANGED <<now, tz, cycle, loops, gc, other, future>>

\* CleanOldInmemoryRecordsRuntime: storage.clean_old_records()
Clean ==
    /\ storage' = clean_old_records(storage, LocalNow)
    /\ last' = [op |-> "clean", before |-> storage, utc_now |-> now]
    /\ UNCHANGED <<now, tz, cycle, loops, gc, other, future>>

\* clean_old_records in its own thread, first half: the comprehension builds
\* new_storage from the entries of self._storage (the same objects)
CleanBuild ==
    /\ gc.pc = "idle"
    /\ gc' = [pc |-> "built", kept |-> DOMAIN clean_old_records(storage, LocalNow)]
    /\ last' = [op |-> "build"]
    /\ UNCHANGED <<storage, now, tz, cycle, loops, other, future>>

\* clean_old_records, second half: self._storage = new_storage
CleanSwap ==
    /\ gc.pc = "built"
    /\ storage' = Restrict(storage, gc.kept)
    /\ gc' = Idle
    /\ last' = [op |-> "swap", before |-> storage, utc_now |-> now]
    /\ UNCHANGED <<now, tz, cycle, loops, other, future>>

\* game_details_update: games_short = self.storage.get_games_by_type(game_type)
Select(game_type) ==
    /\ cycle.pc = "sleep"
    /\ loops[game_type] = "running"
    \* the loop of game_type is not in the middle of a cycle
    /\ ~(other.pc # "sleep" /\ other.game_type = game_type)
    /\ cycle' = [pc |-> "gather", game_type |-> game_type,
                 games_short |-> get_games_by_type(storage, game_type, now),
                 changes |-> EmptyDict]
    /\ last' = [op |-> "select", utc_now |-> now]
    /\ UNCHANGED <<storage, now, tz, loops, gc, other, future>>

\* the fetches of the batch that are in flight under gather_throttle
InFlight ==
    IF cycle.pc = "gather"
    THEN gather_throttle(SeqOfSet(cycle.games_short),
                         {gs \in cycle.games_short : Key(gs) \in DOMAIN cycle.changes},
                         ThrottleLimit)
    ELSE {}

\* GameUpdateManager.get_game_changes for one game of the batch, from the
\* moment its fetch has returned raw_response
GetGameChanges(game_short, raw_response) ==
    /\ cycle.pc = "gather"
    /\ game_short \in cycle.games_short
    /\ game_short \in InFlight
    /\ Key(game_short) \notin DOMAIN cycle.changes
    /\ LET k == Key(game_short)
           game_data == response_to_game_data(raw_response)
           game_last_info == get_last_info(storage, k)
       IN IF ResponseRaises(raw_response)
             \/ (game_data # None /\ GameChangesRaises(Val(game_data)))
          THEN /\ cycle' = [cycle EXCEPT !.pc = "dead"]
               /\ loops' = AfterRaise(cycle.game_type)
               /\ last' = [op |-> "raise", key |-> k,
                           response |-> ResponseKind(raw_response)]
          ELSE /\ cycle' = [cycle EXCEPT !.changes =
                       Put(@, k, IF game_data = None THEN None
                                 ELSE Some(get_game_changes(game_short, Val(game_data),
                                                            game_last_info)))]
               /\ loops' = loops
               /\ last' = [op |-> "diff", key |-> k, last_info |-> game_last_info,
                           response |-> ResponseKind(raw_response)]
    /\ UNCHANGED <<storage, now, tz, gc, other, future>>

\* GameUpdateManager.get_game_changes for one game of the batch, the fetch
\* included: raw_response = await self.client.fetch_game(...), whose exception
\* leaves get_game_changes as it is
FetchGame(game_short, outcomes) ==
    LET fetched == fetch_game(outcomes)
    IN IF fetched.raises
       THEN /\ cycle.pc = "gather"
            /\ game_short \in InFlight
            /\ Key(game_short) \notin DOMAIN cycle.changes
            /\ cycle' = [cycle EXCEPT !.pc = "dead"]
            /\ loops' = AfterRaise(cycle.game_type)
            /\ last' = [op |-> "raise", key |-> Key(game_short), response |-> fetched.error]
            /\ UNCHANGED <<storage, now, tz, gc, other, future>>
       ELSE GetGameChanges(game_short, fetched.value)

\* the tasks of the batch that have not returned yet
Pending ==
    IF cycle.pc = "gather"
    THEN {gs \in cycle.games_short : Key(gs) \notin DOMAIN cycle.changes}
    ELSE {}

\* game_details_update once gather_throttle has returned:
\* self.storage.update_games_list(changes)
UpdateGamesList ==
    /\ cycle.pc = "gather"
    /\ DOMAIN cycle.changes = {Key(gs) : gs \in cycle.games_short}
    /\ storage' = update_games_list(storage,
                       NotNoneChanges(SeqOfSet(cycle.games_short), cycle.changes))
    /\ cycle' = [cycle EXCEPT !.pc = "persist"]
    /\ last' = [op |-> "apply", before |-> storage]
    /\ UNCHANGED <<now, tz, loops, gc, other, future>>

\* game_details_update: save_final_games or upsert_live_games, then the
\* loop's asyncio.sleep
Persist ==
    /\ cycle.pc = "persist"
    /\ cycle' = Sleeping
    /\ last' = [op |-> "persist",
                path |-> IF cycle.game_type = "early_final" THEN "final" ELSE "live",
                calls |-> PersistCalls(cycle.game_type,
                             NotNoneChanges(SeqOfSet(cycle.games_short), cycle.changes))]
    /\ UNCHANGED <<storage, now, tz, loops, gc, other, future>>

\* FutureGamesUpdateRuntime(): reference_dt = get_utc_now(), and async_run up
\* to the start of the tasks of get_future_games_by_sport
FutureStart ==
    /\ future.pc = "idle"
    /\ future' = [future EXCEPT !.pc = "gather", !.reference_dt = now, !.sports = Sports,
                                !.results = <<>>, !.order = <<>>]
    /\ last' = [op |-> "future_start"]
    /\ UNCHANGED <<storage, now, tz, cycle, loops, gc, other>>

\* the tasks of the refresh (by their index) that are in flight
FutureInFlight ==
    IF future.pc = "gather"
    THEN gather_throttle([i \in 1..Len(future.sports) |-> i],
                         {future.order[j] : j \in DOMAIN future.order}, ThrottleLimit)
    ELSE {}

\* get_future_games_by_sport of task i, from the moment fetch_games_in_range
\* has returned raw_response; an exception ends async_run and the job
FutureFetch(i, raw_response) ==
    /\ future.pc = "gather"
    /\ i \in FutureInFlight
    /\ IF ParseGamesRaises(raw_response)
       THEN /\ future' = [future EXCEPT !.pc = "idle"]
            /\ last' = [op |-> "future_raise", index |-> i]
       ELSE /\ future' = [future EXCEPT
                             !.results = [j \in (DOMAIN @) \cup {i} |->
                                            IF j = i THEN parse_games_response(raw_response)
                                            ELSE @[j]],
                             !.order = Append(@, i)]
            /\ last' = [op |-> "future_fetch", index |-> i,
                        response |-> ResponseKind(raw_response),
                        result |-> parse_games_response(raw_response)]
    /\ UNCHANGED <<storage, now, tz, cycle, loops, gc, other>>

\* async_run once gather_throttle has returned: upsert_future_games
FutureUpsert ==
    /\ future.pc = "gather"
    /\ Len(future.order) = Len(future.sports)
    /\ future' = [future EXCEPT
                     !.pc = "idle",
                     !.games = upsert_future_games(@, future.sports,
                                   gather_results(future.results, future.order),
                                   future.reference_dt)]
    /\ last' = [op |-> "future_upsert", before |-> future.games]
    /\ UNCHANGED <<storage, now, tz, cycle, loops, gc, other>>

\* the event loop of async_run goes from one polling task to another: the
\* task it leaves is asleep or awaits its gather_throttle (between
\* update_games_list and the call that persists there is no await), and the
\* task it resumes was left in the same way
Switch ==
    /\ cycle.pc \in {"sleep", "gather"}
    /\ \A game_type \in GameTypes : loops[game_type] = "running"
    /\ cycle' = other
    /\ other' = cycle
    /\ last' = [op |-> "switch"]
    /\ UNCHANGED <<storage, now, tz, loops, gc, future>>

\* a caller reads the state of a key: storage.get_last_info(key)
GetLastInfo(key) ==
    /\ last' = [op |-> "get_last_info", key |-> key, result |-> get_last_info(storage, key)]
    /\ UNCHANGED <<storage, now, tz, cycle, loops, gc, other, future>>

\* a caller reads the status of a key: storage.get_game_current_status(key)
GetGameCurrentStatus(key) ==
    /\ last' = [op |-> "get_game_current_status", key |-> key,
                result |-> get_game_current_status(storage, key)]
    /\ UNCHANGED <<storage, now, tz, cycle, loops, gc, other, future>>

\* the wall clock advances
Tick(t) ==
    /\ t > now
    /\ now' = t
    /\ last' = [op |-> "tick"]
    /\ UNCHANGED <<storage, tz, cycle, loops, gc, other, future>>

-----------------------------------------------------------------------------
(* Inputs: database rows handed to fill, provider responses *)

\* sequences over S of length at most n
SeqsUpTo(S, n) == UNION {[1..m -> S] : m \in 0..n}

Game(id, gamedatetime, status, sv, sh, so) ==
    [id |-> id, sport_code |-> SportCode, gamedatetime |-> gamedatetime,
     status |-> status, score_visitor |-> sv, score_home |-> sh, score_overtime |-> so]

\* the provider's gameday/starttime fields of a game starting at UTC minute t
Gameday(t, zero_day) ==
    [month_start |-> 0,
     dom |-> IF zero_day THEN 0 ELSE ((t - Hours(NyUtcOffsetHours)) \div MinutesPerDay) + 1]
Starttime(t) ==
    [is_dict |-> FALSE, minutes |-> (t - Hours(NyUtcOffsetHours)) % MinutesPerDay]
NoStarttime == [is_dict |-> TRUE, minutes |-> 0]

Score(visitor, home, overtime) == [visitor |-> visitor, home |-> home, overtime |-> overtime]
NoScore == Score("null", "null", "null")

Event(id) == [id |-> ToString(id)]
EventLists == {Some(pbps) : pbps \in SeqsUpTo({Event(i) : i \in 1..MaxEventId}, MaxPbpLen)}

GameData(status, gameday, starttime, score, playbyplay) ==
    [status |-> status, gameday |-> gameday, starttime |-> starttime,
     score |-> score, playbyplay |-> playbyplay]

Response(success, games) == Some([success |-> success, games |-> games])
Ok(game_data) == Response("1", Some(<<game_data>>))

\* responses from which response_to_game_data gets no game: no response,
\* success "0", no "games" key, two games
BadResponses(game_data) ==
    {None, Response("0", Some(<<game_data>>)), Response("1", None),
     Response("1", Some(<<game_data, game_data>>))}

\* a response whose "games" holds no game
EmptyResponse == Response("1", Some(<<>>))

(* The whole program, two games: game 1 is played, game 2 is its sibling *)

DbGames ==
    {Game(1, GameStart, "Scheduled", None, None, None),
     Game(1, GameStart, "InProgress", Some(1), Some(0), Some("N")),
     Game(2, GameStart, "Scheduled", None, None, None)}

GameDatas(id) ==
    IF id = 1
    THEN {GameData(x[1], Gameday(GameStart, FALSE), Starttime(GameStart), x[2], x[3]) :
            x \in {<<"InProgress", NoScore, None>>,
                   <<"InProgress", Score("1", "0", "N"), Some(<<Event(1)>>)>>,
                   <<"InProgress", Score("1", "0", "N"), Some(<<Event(1), Event(MaxEventId)>>)>>,
                   <<"Final", Score("1", "0", "N"), Some(<<Event(1), Event(MaxEventId)>>)>>,
                   <<"Final", NoScore, None>>}}
    ELSE {GameData("InProgress", Gameday(GameStart, FALSE), Starttime(GameStart),
                   NoScore, None)}

Responses(id) ==
    {Ok(gd) : gd \in GameDatas(id)}
    \cup BadResponses(CHOOSE gd \in GameDatas(id) : TRUE)
    \cup {EmptyResponse}

\* the instants at which the model looks at the clock: the start of the
\* games and the first minute past retention
Instants == {GameStart, GameStart + Hours(RetentionHours) + 1}

\* the whole program is modelled on a host whose local time is UTC
TzOffsets == {0}

Init ==
    /\ storage = EmptyDict
    /\ now = GameStart
    /\ tz \in TzOffsets
    /\ cycle = Sleeping
    /\ loops = Running
    /\ gc = Idle
    /\ other = Sleeping
    /\ future = FutureIdle
    /\ last = [op |-> "init"]

Next ==
    \/ \E games \in SeqsUpTo(DbGames, MaxFillLen) : Fill(games)
    \/ Clean
    \/ \E game_type \in GameTypes : Select(game_type)
    \/ \E gs \in Pending : \E r \in Responses(gs.game_id) : GetGameChanges(gs, r)
    \/ UpdateGamesList
    \/ Persist
    \/ \E t \in Instants : Tick(t)

Spec == Init /\ [][Next]_vars

-----------------------------------------------------------------------------
(* The change convertor and the apply step on one game, over every previous  *)
(* state and every payload: a cycle that has selected game 1, whose entry is *)
(* any GameLastInfo or has been removed since the selection.                 *)

OptionOf(S) == {None} \cup {Some(x) : x \in S}

DiffStatuses == {"InProgress", "Final"}
DiffStarts == {GameStart, GameStart + Hours(1)}

\* stored scores: none known, all known, each one alone, another visitor score
StoredScores ==
    {<<None, None, None>>, <<Some(1), Some(0), Some("N")>>, <<Some(2), Some(0), Some("N")>>,
     <<Some(1), None, None>>, <<None, Some(0), None>>, <<None, None, Some("N")>>}

LastInfos ==
    {[game_short |-> GameShort(1), gamedatetime |-> t, status |-> st,
      score_visitor |-> sc[1], score_home |-> sc[2], score_overtime |-> sc[3],
      playbyplay_ids |-> ids] :
        t \in DiffStarts, st \in DiffStatuses, sc \in StoredScores,
        ids \in OptionOf((SUBSET (1..MaxEventId)) \ {{}})}

\* score objects of a payload: missing or {}, complete, changed, placeholders
\* for single values, values that are no integers
PayloadScores ==
    {NoScore, Score("1", "0", "N"), Score("2", "0", "N"), Score("1", "{}", "{}"),
     Score("{}", "0", "null"), Score("null", "null", "N"),
     Score("x", "0", "N"), Score("1", "", "N")}

DiffGameDatas ==
    {GameData(st, Gameday(t, FALSE), Starttime(t), sc, pbp) :
        st \in DiffStatuses, t \in DiffStarts, sc \in PayloadScores,
        pbp \in {None} \cup EventLists}
    \cup {GameData("Final", Gameday(GameStart, TRUE), NoStarttime, NoScore, None)}

DiffResponses == {Ok(gd) : gd \in DiffGameDatas} \cup {None}

InitDiff ==
    /\ storage \in {EmptyDict} \cup {Put(EmptyDict, Key(GameShort(1)), li) : li \in LastInfos}
    /\ now = GameStart
    /\ tz = 0
    /\ cycle = [pc |-> "gather", game_type |-> "today",
                games_short |-> {GameShort(1)}, changes |-> EmptyDict]
    /\ loops = Running
    /\ gc = Idle
    /\ other = Sleeping
    /\ future = FutureIdle
    /\ last = [op |-> "init"]

NextDiff ==
    \/ \E gs \in Pending : \E r \in DiffResponses : GetGameChanges(gs, r)
    \/ UpdateGamesList
    \/ Persist

SpecDiff == InitDiff /\ [][NextDiff]_vars

-----------------------------------------------------------------------------
(* The three scheduler threads on the shared storage: the fill job, the      *)
(* sweep and the polling loops are jobs of a BackgroundScheduler, each in a  *)
(* thread of its own, and clean_old_records builds new_storage before it     *)
(* assigns it.                                                               *)

ThreadGames == {Game(id, GameStart, "Scheduled", None, None, None) : id \in GameIds}

ThreadGameDatas ==
    {GameData("InProgress", Gameday(GameStart, FALSE), Starttime(GameStart),
              Score("1", "0", "N"), Some(<<Event(1)>>))}

NextThreads ==
    \/ \E games \in SeqsUpTo(ThreadGames, 1) : Fill(games)
    \/ CleanBuild
    \/ CleanSwap
    \/ \E game_type \in GameTypes : Select(game_type)
    \/ \E gs \in Pending : \E r \in {Ok(gd) : gd \in ThreadGameDatas} \cup {None} :
           GetGameChanges(gs, r)
    \/ UpdateGamesList
    \/ Persist

SpecThreads == Init /\ [][NextThreads]_vars

-----------------------------------------------------------------------------
(* Classification and retention against the clock: the store is filled from  *)
(* the database and swept while the provider gives no usable response.       *)

ClockGames ==
    {Game(1, GameStart, st, None, None, None) : st \in {"Scheduled", "InProgress"}}
    \cup {Game(2, GameStart + Hours(1), "Final - Forfeit Home", Some(1), Some(0), Some("N"))}

\* minutes from the start of game 1 at which the clock is read: the edges of
\* the live window and of the retention horizon, and an hour either side
ClockOffsets ==
    {0 - Hours(LiveWindowHours), 1 - Hours(LiveWindowHours), 0,
     Hours(LiveWindowHours) - 1, Hours(LiveWindowHours), Hours(LiveWindowHours) + 1,
     Hours(RetentionHours - 1), Hours(RetentionHours), Hours(RetentionHours) + 1,
     Hours(RetentionHours + 1)}

ClockInstants == {GameStart + d : d \in ClockOffsets}

ClockTzOffsets == {0, 0 - Hours(NyUtcOffsetHours), Hours(2)}

InitClock ==
    /\ storage = EmptyDict
    /\ now = GameStart - Hours(LiveWindowHours)
    /\ tz \in ClockTzOffsets
    /\ cycle = Sleeping
    /\ loops = Running
    /\ gc = Idle
    /\ other = Sleeping
    /\ future = FutureIdle
    /\ last = [op |-> "init"]

NextClock ==
    \/ \E games \in SeqsUpTo(ClockGames, MaxFillLen) : Fill(games)
    \/ Clean
    \/ \E game_type \in GameTypes : Select(game_type)
    \/ \E gs \in Pending : \E r \in BadResponses(CHOOSE gd \in GameDatas(1) : TRUE) :
           GetGameChanges(gs, r)
    \/ UpdateGamesList
    \/ Persist
    \/ \E t \in ClockInstants : Tick(t)
    \/ \E gs \in GameShorts : GetLastInfo(Key(gs))
    \/ \E gs \in GameShorts : GetGameCurrentStatus(Key(gs))

SpecClock == InitClock /\ [][NextClock]_vars

-----------------------------------------------------------------------------
(* The fetch fan-out of one polling loop over a bucket larger than the cap of  *)
(* gather_throttle: every game of the store starts today, and the provider   *)
(* answers nothing or a response that holds no game.                         *)

MaxBatch == 12       \* games in the store, two more than ThrottleLimit

ThrottleGames == {Game(id, GameStart, "Scheduled", None, None, None) : id \in 1..MaxBatch}

ThrottleResponses == {None, EmptyResponse}

InitThrottle ==
    /\ storage = fill_inmemory_storage(EmptyDict, SeqOfSet(ThrottleGames))
    /\ now = GameStart
    /\ tz = 0
    /\ cycle = Sleeping
    /\ loops = Running
    /\ gc = Idle
    /\ other = Sleeping
    /\ future = FutureIdle
    /\ last = [op |-> "init"]

NextThrottle ==
    \/ \E game_type \in GameTypes : Select(game_type)
    \/ \E gs \in Pending : \E r \in ThrottleResponses : GetGameChanges(gs, r)
    \/ UpdateGamesList
    \/ Persist

SpecThrottle == InitThrottle /\ [][NextThrottle]_vars

-----------------------------------------------------------------------------
(* The polling cycle with its fetches: each attempt of NatstatClient._get     *)
(* times out or gets a response: 200 with a game, 500, 503 with a body that  *)
(* is no JSON or with an error envelope.                                     *)

FetchOutcomes ==
    {Timeout, NotJson(500), NotJson(503), Json(503, Response("0", None))}
    \cup {Json(200, Ok(gd)) : gd \in ThreadGameDatas}

NextFetch ==
    \/ \E games \in SeqsUpTo(ThreadGames, 1) : Fill(games)
    \/ \E game_type \in GameTypes : Select(game_type)
    \/ \E gs \in Pending : \E outcomes \in [1..MaxRetries -> FetchOutcomes] :
           FetchGame(gs, outcomes)
    \/ UpdateGamesList
    \/ Persist

SpecFetch == Init /\ [][NextFetch]_vars

\* run_update_game_details is "while True: await game_details_update;
\* await asyncio.sleep": the event loop resumes every task that can go on, so
\* a loop that is still running starts its next cycle, a fetch in flight
\* comes to an end (its attempts are bounded), and a cycle whose fetches have
\* all returned applies and persists
FairFetch ==
    /\ \A game_type \in GameTypes : SF_vars(Select(game_type))
    /\ WF_vars(\E gs \in Pending : \E outcomes \in [1..MaxRetries -> FetchOutcomes] :
                   FetchGame(gs, outcomes))
    /\ WF_vars(UpdateGamesList)
    /\ WF_vars(Persist)

SpecFetchFair == SpecFetch /\ FairFetch

-----------------------------------------------------------------------------
(* The future-games refresh over a games table of two sports: game 1 of the  *)
(* first sport starts around the edges of the removal window.                *)

\* starts of game 1 against the reference: a minute before it, at it, at the
\* end of the window, a minute past it
WindowStarts ==
    {GameStart - 1, GameStart, GameStart + RemovalWindowDays * MinutesPerDay,
     GameStart + RemovalWindowDays * MinutesPerDay + 1}

FutureTables ==
    {a \cup b \cup c :
        a \in {{}} \cup {{GameRow(1, Sports[1], t, FALSE)} : t \in WindowStarts},
        b \in {{}, {GameRow(2, Sports[1], GameStart + MinutesPerDay, FALSE)}},
        c \in {{}, {GameRow(1, Sports[2], GameStart + MinutesPerDay, FALSE)}}}

\* a game of a range response: it starts a day after the reference
RangeGame(id) ==
    [id |-> ToString(id), status |-> "Scheduled",
     gameday |-> Gameday(GameStart + MinutesPerDay, FALSE),
     starttime |-> Starttime(GameStart + MinutesPerDay)]

RangeResponses ==
    {None, Response("0", Some(<<RangeGame(1)>>)), Response("1", None)}
    \cup {Response("1", Some(games)) :
            games \in {<<>>, <<RangeGame(1)>>, <<RangeGame(2)>>}}

InitFuture ==
    /\ storage = EmptyDict
    /\ now = GameStart
    /\ tz = 0
    /\ cycle = Sleeping
    /\ loops = Running
    /\ gc = Idle
    /\ other = Sleeping
    /\ future \in {[FutureIdle EXCEPT !.games = games] : games \in FutureTables}
    /\ last = [op |-> "init"]

NextFuture ==
    \/ FutureStart
    \/ \E i \in FutureInFlight : \E r \in RangeResponses : FutureFetch(i, r)
    \/ FutureUpsert

SpecFuture == InitFuture /\ [][NextFuture]_vars

-----------------------------------------------------------------------------
(* Two polling loops at once: the four tasks of async_run share one event    *)
(* loop, which leaves a cycle at its awaits and resumes another.             *)

NextLoops ==
    \/ \E games \in SeqsUpTo(ThreadGames, 1) : Fill(games)
    \/ Clean
    \/ \E game_type \in GameTypes : Select(game_type)
    \/ \E gs \in Pending : \E r \in {Ok(gd) : gd \in ThreadGameDatas} \cup {None} :
           GetGameChanges(gs, r)
    \/ UpdateGamesList
    \/ Persist
    \/ Switch

SpecLoops == Init /\ [][NextLoops]_vars

-----------------------------------------------------------------------------
(* Properties of the storage *)

\* the deltas an apply step hands to update_games_list
AppliedChanges == NotNoneChanges(SeqOfSet(cycle.games_short), cycle.changes)
ChangesFor(k) ==
    {AppliedChanges[i] : i \in {j \in DOMAIN AppliedChanges :
                                  Key(AppliedChanges[j].game_short) = k}}

\* known_event_ids as a set: nothing known when None
KnownIds(info) == IF info.playbyplay_ids = None THEN {} ELSE Val(info.playbyplay_ids)

\* what a fill step may do, given the keys its rows named (last'.kept, last'.added)
FillIsMergeOnly ==
    /\ DOMAIN storage' = DOMAIN storage \cup last'.added
    /\ \A k \in DOMAIN storage : storage'[k] = storage[k]
    /\ \A k \in last'.added :
          /\ k \notin DOMAIN storage
          /\ \E game \in DbGames \cup ClockGames :
                /\ Key(LastInfoOfGame(game).game_short) = k
                /\ storage'[k] = LastInfoOfGame(game)
    /\ last'.added = {} => storage' = storage

\* C1: fill_inmemory_storage is a merge-only seed: a call inserts an entry for
\* every game it names whose key has none, leaves every entry that was there
\* as it was (status, time, scores, known event ids), and so a second call with
\* the same games, which names no key without an entry, changes nothing.
C1_FillMergeOnly == [][last'.op = "fill" => FillIsMergeOnly]_vars

\* a fill call that named a key whose entry differs from the database row and
\* a key that had no entry
C1_Witness == last.op = "fill" /\ last.kept # {} /\ last.added # {}

\* C5: update_games_list never removes an id from a game's playbyplay_ids:
\* it leaves the set as it was or replaces it by its union with the ids of
\* the delta's new events.
C5_EventMonotonicity ==
    [][UpdateGamesList =>
         \A k \in DOMAIN storage :
            /\ k \in DOMAIN storage'
            /\ KnownIds(storage[k]) \subseteq KnownIds(storage'[k])
            /\ \/ storage'[k].playbyplay_ids = storage[k].playbyplay_ids
               \/ \E d \in ChangesFor(k) :
                     /\ d.playbyplay_changes # None
                     /\ KnownIds(storage'[k]) =
                            KnownIds(storage[k]) \cup PbpIds(Val(d.playbyplay_changes))]_vars

\* an apply that added new event ids to a game that already had some
C5_Witness ==
    /\ last.op = "apply"
    /\ \E k \in DOMAIN last.before :
          /\ last.before[k].playbyplay_ids # None
          /\ KnownIds(last.before[k]) # KnownIds(storage[k])
          /\ KnownIds(last.before[k]) \subseteq KnownIds(storage[k])

\* C9: update_games_list overwrites a stored field only with a value the delta
\* carries: a field that is None in the delta keeps its stored value, and the
\* entries of games no delta names are unchanged.
C9_ApplyFrame ==
    [][UpdateGamesList =>
         \A k \in DOMAIN storage :
            /\ k \in DOMAIN storage'
            /\ ChangesFor(k) = {} => storage'[k] = storage[k]
            /\ \A d \in ChangesFor(k) :
                  /\ storage'[k].status =
                        IF d.status = None THEN storage[k].status ELSE Val(d.status)
                  /\ storage'[k].gamedatetime =
                        IF d.gamedatetime = None THEN storage[k].gamedatetime
                        ELSE Val(d.gamedatetime)
                  /\ storage'[k].score_visitor =
                        IF d.score_visitor = None THEN storage[k].score_visitor
                        ELSE d.score_visitor
                  /\ storage'[k].score_home =
                        IF d.score_home = None THEN storage[k].score_home
                        ELSE d.score_home
                  /\ storage'[k].score_overtime =
                        IF d.score_overtime = None THEN storage[k].score_overtime
                        ELSE d.score_overtime]_vars

\* an apply whose delta changed the status of a game and carried no score for
\* it while a score was stored, with another game in the store that no delta named
C9_Witness ==
    /\ last.op = "apply"
    /\ \E k \in DOMAIN last.before : \E d \in ChangesFor(k) :
          /\ d.status # None
          /\ d.score_visitor = None
          /\ last.before[k].score_visitor # None
          /\ storage[k].score_visitor = last.before[k].score_visitor
    /\ \E k \in DOMAIN last.before : ChangesFor(k) = {}

\* the ids of a delta's new events: None when it carries no event
NewEventIds(d) ==
    IF d.playbyplay_changes = None \/ Val(d.playbyplay_changes) = <<>> THEN None
    ELSE Some(PbpIds(Val(d.playbyplay_changes)))

-----------------------------------------------------------------------------
(* Properties of the polling cycle *)

\* C15: an exception raised inside one polling loop ends that loop only: the
\* three other loops are still running (and the sweep is not stopped).
C15_OnlyThatLoop ==
    \A t \in GameTypes :
        loops[t] = "raised" => \A u \in GameTypes \ {t} : loops[u] = "running"

\* the names of the DbClient methods a persist step called
CalledFns(calls) == {calls[i].fn : i \in DOMAIN calls}

\* C19: a cycle of the early_final bucket persists each delta by a call of
\* upsert_games followed by save_game_details and save_pbps and never calls
\* upsert_live_games; a cycle of another bucket calls upsert_live_games with
\* its deltas and nothing else.
C19_PersistBranch ==
    [][Persist =>
         IF cycle.game_type = "early_final"
         THEN /\ "upsert_live_games" \notin CalledFns(last'.calls)
              /\ \A n \in DOMAIN AppliedChanges :
                    \E i, j, l \in DOMAIN last'.calls :
                       /\ i < j /\ j < l
                       /\ last'.calls[i] =
                             DbCall("upsert_games", <<Key(AppliedChanges[n].game_short)>>)
                       /\ last'.calls[j] = DbCall("save_game_details", KeysOf(AppliedChanges))
                       /\ last'.calls[l] = DbCall("save_pbps", KeysOf(AppliedChanges))
         ELSE last'.calls = <<DbCall("upsert_live_games", KeysOf(AppliedChanges))>>]_vars

\* a persist step of an early_final cycle with a delta
C19_Witness ==
    /\ last.op = "persist"
    /\ last.path = "final"
    /\ Len(last.calls) >= 3

\* C20: no diff of a cycle is computed, and no previous state is read for it,
\* before every fetch of the cycle's batch has completed or failed.
C20_DiffAfterBatch ==
    (last.op = "diff" /\ cycle.changes[last.key] # None) => Pending = {}

\* the responses that are a fetch failure: no result, success "0", no
\* "games" key, more than one game, no game
FetchFailures == {"none", "unsuccessful", "no_games_key", "many_games", "no_game"}

\* C16: a game whose fetch failed is dropped from the cycle without raising
\* (its change is None); the apply of the cycle leaves its entry as it was
\* and gives every sibling that has a delta an entry updated from it.
C16_FetchFailureDropped ==
    /\ (last.op \in {"diff", "raise"} /\ last.response \in FetchFailures) =>
          /\ last.op = "diff"
          /\ cycle.changes[last.key] = None
    /\ last.op = "apply" =>
          \A k \in DOMAIN cycle.changes :
              IF cycle.changes[k] = None
              THEN k \in DOMAIN last.before =>
                      (k \in DOMAIN storage /\ storage[k] = last.before[k])
              ELSE k \in DOMAIN storage

\* C17: clean_old_records is atomic for the threads that share the store: the
\* assignment of the rebuilt store removes only entries older than the
\* threshold, so no entry that fill or an apply has inserted meanwhile is lost.
C17_SweepAtomic ==
    last.op = "swap" =>
        \A k \in DOMAIN last.before :
            last.before[k].gamedatetime >= LocalNow - Hours(RetentionHours) =>
                (k \in DOMAIN storage /\ storage[k] = last.before[k])

-----------------------------------------------------------------------------
(* Properties of the change convertor (SpecDiff) *)

\* the state after get_game_changes has produced a delta for last.key
DiffDone == last.op = "diff" /\ cycle.changes[last.key] # None
Delta == Val(cycle.changes[last.key])

\* the payload carries the values the previous state holds
SameValues(info, game_data) ==
    /\ game_data.status = info.status
    /\ get_game_datetime(game_data) = info.gamedatetime
    /\ get_natstat_int(game_data.score.visitor) = info.score_visitor
    /\ get_natstat_int(game_data.score.home) = info.score_home
    /\ get_natstat_str(game_data.score.overtime) = info.score_overtime

PayloadIds(game_data) ==
    IF game_data.playbyplay = None THEN {} ELSE PbpIds(Val(game_data.playbyplay))

ScalarsAbsent(d) ==
    /\ d.status = None
    /\ d.gamedatetime = None
    /\ d.score_visitor = None
    /\ d.score_home = None
    /\ d.score_overtime = None

\* C2: with no previous state the delta carries every comparable field
\* (status, scheduled time, the three scores): none is None.
C2_FullSnapshot ==
    (DiffDone /\ last.last_info = None) =>
        /\ Delta.status # None
        /\ Delta.gamedatetime # None
        /\ Delta.score_visitor # None
        /\ Delta.score_home # None
        /\ Delta.score_overtime # None

NoChangeCase ==
    /\ DiffDone
    /\ last.last_info # None
    /\ SameValues(Val(last.last_info), Delta.game_data)
    /\ PayloadIds(Delta.game_data) \subseteq KnownIds(Val(last.last_info))

\* C3 as stated: when the payload carries the stored values and only known
\* event ids, every field of the delta is None, the new-events list included.
C3_AllAbsent ==
    NoChangeCase => (ScalarsAbsent(Delta) /\ Delta.playbyplay_changes = None)

\* C3 as amended: when the payload carries the stored values and only known
\* event ids, status, scheduled time and scores of the delta are None and the
\* new-events list holds no record: it is the empty list when the payload has
\* a play-by-play collection and None only when it has none.
C3_NoChange ==
    NoChangeCase =>
        /\ ScalarsAbsent(Delta)
        /\ Delta.playbyplay_changes =
              IF Delta.game_data.playbyplay = None THEN None ELSE Some(<<>>)

\* a diff of a payload that repeats the stored status, time and scores and
\* whose play-by-play collection holds known events only
C3_Witness ==
    /\ NoChangeCase
    /\ Val(last.last_info).score_visitor # None
    /\ PayloadIds(Delta.game_data) # {}

\* C4: the new-events list is None when the payload has no play-by-play
\* collection; otherwise it is the payload's records, in order, whose id is
\* not among the previous state's known ids (all of them when there is no
\* previous state or it knows no ids), and never a record with a known id.
C4_NewEvents ==
    DiffDone =>
        LET known == IF last.last_info = None THEN {} ELSE KnownIds(Val(last.last_info))
            IsNew(item) == ParseInt(item.id) \notin known
        IN IF Delta.game_data.playbyplay = None
           THEN Delta.playbyplay_changes = None
           ELSE /\ Delta.playbyplay_changes # None
                /\ Val(Delta.playbyplay_changes) =
                      SelectSeq(Val(Delta.game_data.playbyplay), IsNew)
                /\ \A i \in DOMAIN Val(Delta.playbyplay_changes) :
                      ParseInt(Val(Delta.playbyplay_changes)[i].id) \notin known

\* a diff against known ids of a payload with a known and a new event
C4_Witness ==
    /\ DiffDone
    /\ last.last_info # None
    /\ Val(last.last_info).playbyplay_ids # None
    /\ Delta.playbyplay_changes # None
    /\ Len(Val(Delta.playbyplay_changes)) > 0
    /\ Len(Val(Delta.playbyplay_changes)) < Len(Val(Delta.game_data.playbyplay))

\* C8: after the delta of a payload has been applied, the stored status,
\* scheduled time and scores are the values extracted from the payload (a
\* score the payload no longer carries is cleared), and the known event ids
\* are the previous ones united with the payload's.
C8_Convergence ==
    last.op = "apply" =>
        \A k \in DOMAIN storage : \A d \in ChangesFor(k) :
            /\ storage[k].status = d.game_data.status
            /\ storage[k].gamedatetime = get_game_datetime(d.game_data)
            /\ storage[k].score_visitor = get_natstat_int(d.game_data.score.visitor)
            /\ storage[k].score_home = get_natstat_int(d.game_data.score.home)
            /\ storage[k].score_overtime = get_natstat_str(d.game_data.score.overtime)
            /\ KnownIds(storage[k]) =
                  (IF k \in DOMAIN last.before THEN KnownIds(last.before[k]) ELSE {})
                  \cup PayloadIds(d.game_data)

\* a score as the specification extracts it: the integer of a well-formed
\* value, None for a placeholder, a missing or a malformed value
ExtractedScore(tok) == IF IsIntLiteral(tok) THEN Some(ParseInt(tok)) ELSE None

\* C12: score extraction never raises: the diff of a usable response always
\* yields a delta, and against no previous state its visitor and home scores
\* are the integers of well-formed values and None for a placeholder, a
\* missing or a malformed value; the overtime is the string or None.
C12_ScoreNeverRaises ==
    /\ last.op = "raise" => last.response # "one_game"
    /\ (DiffDone /\ last.last_info = None) =>
          /\ Delta.score_visitor = ExtractedScore(Delta.game_data.score.visitor)
          /\ Delta.score_home = ExtractedScore(Delta.game_data.score.home)
          /\ Delta.score_overtime =
                IF Delta.game_data.score.overtime \in {"null", "{}"} THEN None
                ELSE Some(Delta.game_data.score.overtime)

\* a delta that carries nothing: no field and no new event
NoOp(d) ==
    /\ ScalarsAbsent(d)
    /\ (d.playbyplay_changes = None \/ Val(d.playbyplay_changes) = <<>>)

\* C18: the deltas a cycle applies to the store and hands to the database
\* carry at least one changed field or one new event: no-op deltas have been
\* filtered out before.
C18_NoOpsFiltered ==
    cycle.pc = "persist" => \A n \in DOMAIN AppliedChanges : ~NoOp(AppliedChanges[n])

-----------------------------------------------------------------------------
(* Properties of classification and retention (SpecClock) *)

\* the live bucket as the specification words it
IsLive(info, t) ==
    \/ t <= info.gamedatetime /\ info.gamedatetime < t + Hours(3)
    \/ /\ info.status # "Scheduled"
       /\ t - Hours(3) <= info.gamedatetime
       /\ info.gamedatetime < t

\* C6: get_games_by_type(live) returns exactly the stored games scheduled in
\* [now, now+3h), or not "Scheduled" and scheduled in [now-3h, now).
C6_LiveBucket ==
    (last.op = "select" /\ cycle.game_type = "live") =>
        cycle.games_short =
            {storage[k].game_short : k \in {x \in DOMAIN storage :
                                              IsLive(storage[x], last.utc_now)}}

\* a live selection that leaves out a Scheduled game of 2h59m ago and takes
\* another game
C6_Witness ==
    /\ last.op = "select"
    /\ cycle.game_type = "live"
    /\ \E k \in DOMAIN storage :
          /\ storage[k].status = "Scheduled"
          /\ storage[k].gamedatetime = now - (Hours(3) - 1)
          /\ storage[k].game_short \notin cycle.games_short
    /\ cycle.games_short # {}

\* C7: clean_old_records removes exactly the games whose UTC scheduled time is
\* before UTC now minus 5 hours and keeps every other entry as it was.
C7_Retention ==
    last.op = "clean" =>
        /\ DOMAIN storage =
              {k \in DOMAIN last.before :
                 last.before[k].gamedatetime >= last.utc_now - Hours(5)}
        /\ \A k \in DOMAIN storage : storage[k] = last.before[k]

\* the statuses of the modelled games that contain "final" in any case
FinalStatuses == {"Final", "Final - Forfeit Home"}

FinalGames(st) == {st[k].game_short : k \in {x \in DOMAIN st : st[x].status \in FinalStatuses}}

\* C11: get_games_by_type(early_final) returns exactly the stored games whose
\* status contains "final" in any case ("Final", "Final - Forfeit Home"),
\* whatever their scheduled time and whatever the time of the call.
C11_EarlyFinalBucket ==
    /\ \A t \in ClockInstants \cup {now} :
          get_games_by_type(storage, "early_final", t) = FinalGames(storage)
    /\ (last.op = "select" /\ cycle.game_type = "early_final") =>
          cycle.games_short = FinalGames(storage)

\* an early_final selection, hours after its start, of a game forfeited,
\* that leaves out a stored game in progress
C11_Witness ==
    /\ last.op = "select"
    /\ cycle.game_type = "early_final"
    /\ \E k \in DOMAIN storage :
          /\ storage[k].status = "Final - Forfeit Home"
          /\ storage[k].gamedatetime < now - Hours(LiveWindowHours)
          /\ storage[k].game_short \in cycle.games_short
    /\ \E k \in DOMAIN storage :
          /\ storage[k].status = "InProgress"
          /\ storage[k].game_short \notin cycle.games_short

\* C14: get_last_info of a key without an entry returns None without error and
\* get_game_current_status of such a key raises KeyError; for a key with an
\* entry they return the entry and its status; neither changes the store.
C14_Lookups ==
    [][/\ last'.op = "get_last_info" =>
            /\ storage' = storage
            /\ last'.result = IF last'.key \in DOMAIN storage
                              THEN Some(storage[last'.key]) ELSE None
       /\ last'.op = "get_game_current_status" =>
            /\ storage' = storage
            /\ IF last'.key \in DOMAIN storage
               THEN /\ last'.result.error = "none"
                    /\ last'.result.status = Some(storage[last'.key].status)
               ELSE last'.result.error = "KeyError"]_vars

\* a status read of a key without an entry while another key has one
C14_Witness ==
    /\ last.op = "get_game_current_status"
    /\ last.key \notin DOMAIN storage
    /\ last.result.error = "KeyError"
    /\ storage # EmptyDict

\* C10: get_games_by_type(early) returns no game, whatever the store holds
\* and whatever the time.
C10_EarlyEmpty ==
    /\ \A t \in ClockInstants \cup {now} : get_games_by_type(storage, "early", t) = {}
    /\ (cycle.pc # "sleep" /\ cycle.game_type = "early") => cycle.games_short = {}

\* a selection of the early bucket while a stored game starts within the hour
C10_Witness ==
    /\ last.op = "select"
    /\ cycle.game_type = "early"
    /\ \E k \in DOMAIN storage :
          now < storage[k].gamedatetime /\ storage[k].gamedatetime <= now + Hours(1)

-----------------------------------------------------------------------------
(* Properties of the fetch fan-out, under SpecThrottle *)

\* the games of the batch whose fetch has returned
Fetched == {gs \in cycle.games_short : Key(gs) \in DOMAIN cycle.changes}

\* at most ThrottleLimit fetches of a cycle are in flight
FetchesCapped == Cardinality(InFlight) <= ThrottleLimit

\* C21: at most 10 fetches of a cycle are in flight at any moment, and a cycle
\* never leaves its fan-out, to the apply step or by an exception, with a
\* selected game that was not fetched
C21_ThrottledFanOut ==
    /\ FetchesCapped
    /\ cycle.pc \in {"persist", "dead"} => Fetched = cycle.games_short

-----------------------------------------------------------------------------
(* Properties of the fetches, under SpecFetch *)

\* the response that ends a call of _get: the first attempt that does not
\* time out, or the last attempt
RECURSIVE FinalOutcome(_)
FinalOutcome(outcomes) ==
    IF Len(outcomes) = 1 \/ Head(outcomes).kind # "timeout" THEN Head(outcomes)
    ELSE FinalOutcome(Tail(outcomes))

\* the game of the step is skipped: no exception, no delta, the loops go on
Skipped(game_short) ==
    /\ cycle'.pc = "gather"
    /\ Key(game_short) \in DOMAIN cycle'.changes
    /\ cycle'.changes[Key(game_short)] = None
    /\ loops' = loops
    /\ storage' = storage

\* C22: when every attempt of a fetch has timed out, the fetch comes to the
\* cycle as null, not as an exception: the game is skipped and the loop goes on
C22_TimeoutsSurfaceAsNull ==
    [][\A gs \in GameShorts : \A outcomes \in [1..MaxRetries -> {Timeout}] :
          FetchGame(gs, outcomes) => Skipped(gs)]_vars

\* C23: a response with a 5xx status makes the fetch return null rather than
\* raise: the game is dropped from the cycle and its entry is unchanged
C23_ServerErrorIsNull ==
    [][\A gs \in GameShorts : \A outcomes \in [1..MaxRetries -> FetchOutcomes] :
          (/\ FinalOutcome(outcomes).kind = "response"
           /\ FinalOutcome(outcomes).status \in 500..599
           /\ FetchGame(gs, outcomes)) => Skipped(gs)]_vars

\* the fetch of a game of a cycle of the loop game_type has just failed
FetchFailed(game_type) ==
    /\ last.op \in {"diff", "raise"}
    /\ last.response \in FetchFailures \cup {"TimeoutError", "ContentTypeError"}
    /\ cycle.game_type = game_type

\* C24: after the fetch of a game has failed in a cycle of a polling loop, the
\* loop starts its next cycle, which selects the games of its bucket again
C24_SelfHealing ==
    \A game_type \in GameTypes :
        FetchFailed(game_type) ~> (last.op = "select" /\ cycle.game_type = game_type)

-----------------------------------------------------------------------------
(* Properties of the loops over time, under Spec *)

\* the keys of the games a persist step handed to the database
PersistedKeys(calls) ==
    UNION {{calls[i].keys[j] : j \in DOMAIN calls[i].keys} : i \in DOMAIN calls}

\* C25: once a cycle of the early_final bucket has persisted a game by the
\* final path, the next early_final cycle does not select that game again
C25_FinalDropsOut ==
    [][(/\ last.op = "persist"
        /\ last.path = "final"
        /\ last'.op = "select"
        /\ cycle'.game_type = "early_final")
       => \A gs \in cycle'.games_short : Key(gs) \notin PersistedKeys(last.calls)]_vars

\* the keys of the deltas of a sequence
KeySet(changes) == {Key(changes[i].game_short) : i \in DOMAIN changes}

\* C26: a cycle comes to its persist step only by its apply step, which
\* applies the surviving deltas to the store; the persist step hands the
\* database exactly the deltas that were applied; and a cycle completes only
\* by its persist step.
C26_ApplyThenPersist ==
    [][/\ (cycle'.pc = "persist" /\ cycle.pc # "persist") =>
            /\ last'.op = "apply"
            /\ storage' = update_games_list(storage, AppliedChanges)
            /\ cycle'.changes = cycle.changes
            /\ cycle'.games_short = cycle.games_short
       /\ last'.op = "persist" =>
            /\ cycle.pc = "persist"
            /\ PersistedKeys(last'.calls) = KeySet(AppliedChanges)
            /\ \A i \in DOMAIN last'.calls :
                   \A j \in DOMAIN last'.calls[i].keys :
                       last'.calls[i].keys[j] \in KeySet(AppliedChanges)
       /\ (cycle'.pc = "sleep" /\ cycle.pc # "sleep") => last'.op = "persist"]_vars

\* a cycle of another bucket than early_final has applied a delta and handed
\* it to the database
C26_Witness ==
    /\ last.op = "persist"
    /\ last.path = "live"
    /\ PersistedKeys(last.calls) # {}

\* C28: an event is handed to the database as new at most once: no delta
\* that a cycle applies and persists reports as new an event that the store
\* already knows, that is, one an earlier delta has reported (fill stores no
\* event ids).
C28_NewAtMostOnce ==
    [][last'.op = "apply" =>
         \A i \in DOMAIN AppliedChanges :
            LET d == AppliedChanges[i]
                k == Key(d.game_short)
            IN (k \in DOMAIN storage /\ NewEventIds(d) # None) =>
                  Val(NewEventIds(d)) \cap KnownIds(storage[k]) = {}]_vars

\* C29: the apply step of a cycle puts no game into the store that is past
\* the retention horizon, so a game the sweep has removed since the cycle
\* selected it stays removed (a key of a delta that the store lacks at the
\* apply was removed by a sweep: the cycle selected it from the store).
C29_EvictedStaysOut ==
    [][last'.op = "apply" =>
         \A k \in DOMAIN storage' \ DOMAIN storage :
            storage'[k].gamedatetime >= LocalNow - Hours(RetentionHours)]_vars

-----------------------------------------------------------------------------
(* Properties of the future-games refresh, under SpecFuture *)

RowsOf(games, sport_code) == {g \in games : g.sport_code = sport_code}

\* the rows of a sport that start in [reference, reference + 10 days] and
\* whose id is not among the fetched games
StaleRows(games, sport_code, fetched_games, reference_dt) ==
    {g \in RowsOf(games, sport_code) :
        /\ g.gamedatetime >= reference_dt
        /\ g.gamedatetime <= reference_dt + RemovalWindowDays * MinutesPerDay
        /\ g.id \notin FetchedGameIds(fetched_games)}

Marked(g) == [g EXCEPT !.removed_from_natstat = TRUE]

\* C27: parse_games_response reports failure with no games for a null
\* response and for success "0", and the refresh then changes no row of that
\* sport; for a successful result the rows of the sport that are not fetched
\* are marked removed exactly when they start within ten days of the
\* reference, and the fetched games are stored as not removed.
C27_FutureRefresh ==
    [][/\ (last'.op = "future_fetch" /\ last'.response \in {"none", "unsuccessful"}) =>
            last'.result = FetchedGamesResult(FALSE, <<>>)
       /\ last'.op = "future_upsert" =>
            \A i \in DOMAIN future.sports :
               LET sport_code == future.sports[i]
                   result == future.results[i]
                   before == RowsOf(future.games, sport_code)
                   after == RowsOf(future'.games, sport_code)
                   fetched == FetchedGameIds(result.games_data)
                   stale == StaleRows(future.games, sport_code, result.games_data,
                                      future.reference_dt)
               IN IF ~result.is_successful THEN after = before
                  ELSE /\ {h \in after : h.id \notin fetched} =
                            {IF g \in stale THEN Marked(g) ELSE g :
                                g \in {x \in before : x.id \notin fetched}}
                       /\ {h.id : h \in {x \in after : x.id \in fetched}} = fetched
                       /\ \A h \in after : h.id \in fetched => ~h.removed_from_natstat]_vars

\* a refresh in which one sport failed and left its rows alone, and the other
\* succeeded, marked a row inside the window and left one outside it alone
C27_Witness ==
    /\ last.op = "future_upsert"
    /\ \E i, j \in DOMAIN future.sports :
          /\ ~future.results[i].is_successful
          /\ RowsOf(future.games, future.sports[i]) # {}
          /\ future.results[j].is_successful
          /\ \E g \in RowsOf(last.before, future.sports[j]) :
                 ~g.removed_from_natstat /\ Marked(g) \in future.games
    /\ \E t \in {GameStart - 1, GameStart + RemovalWindowDays * MinutesPerDay + 1} :
          GameRow(1, Sports[1], t, FALSE) \in last.before \cap future.games

\* C30: whatever the order in which the tasks of the refresh finish, the
\* rows of sport i are refreshed with the result of task i, the fetch for
\* sport i.
C30_ResultsInTaskOrder ==
    [][last'.op = "future_upsert" =>
         \A i \in DOMAIN future.sports :
            RowsOf(future'.games, future.sports[i]) =
            RowsOf(UpsertSport(future.games, future.sports[i], future.results[i],
                               future.reference_dt),
                   future.sports[i])]_vars

\* a refresh whose second task finished before its first, with results that
\* differ
C30_Witness ==
    /\ last.op = "future_upsert"
    /\ future.order = <<2, 1>>
    /\ future.results[1] # future.results[2]
    /\ future.results[1].is_successful
====
